---------------------------- MODULE Spec2Model ----------------------------
(***************************************************************************)
(* A model of cmd/disfunc (main.go): getDisasm's listing parser, address   *)
(* index, jump resolver and file filter, and printAnnotated's renderer.    *)
(*                                                                         *)
(* Go strings are sequences of one-character strings, so that slicing,     *)
(* IndexByte, TrimSpace, Atoi and ParseInt are computed as the library     *)
(* computes them.  Go indices are 0-based; Slice(s, lo, hi) is s[lo:hi].   *)
(***************************************************************************)
EXTENDS Integers, Sequences, FiniteSets, TLC

VARIABLES
    pc,        \* control position
    l,         \* getDisasm: the line the parse loop is at (range variable)
    nread,     \* number of listing lines consumed so far
    out,       \* getDisasm: out []*disasmSym
    m,         \* getDisasm: m map[int]string, the address index
    ret,       \* what getDisasm returned: [syms, err]; NoRet before it returns
    file,      \* getDisasm: the file argument (target basename)
    i,         \* getDisasm: index of the filter loop
    parsed,    \* history: the Symbol list as it entered the file filter
    first,     \* history: the result of the first filter pass, when it is re-applied
    d,         \* printAnnotated: d []*disasmSym
    si,        \* printAnnotated: position of the symbol loop (1-based)
    ci,        \* printAnnotated: position of the content loop (1-based)
    lastLine,  \* printAnnotated: lastLine
    nlines,    \* printAnnotated: len(lines) of the source file read
    w          \* printAnnotated: what was written to w, one record per Fprintf

vars == <<pc, l, nread, out, m, ret, file, i, parsed, first, d, si, ci, lastLine, nlines, w>>

parseVars == <<l, nread, out, m>>
filterVars == <<file, i, parsed, first>>
renderVars == <<d, si, ci, lastLine, nlines, w>>

-----------------------------------------------------------------------------
(* Bounds *)

\* lines of the listing the parser reads
MaxLines == 4
\* Symbols in the list handed to the file filter
MaxSyms == 4
\* Symbols handed to the renderer
MaxRenderSyms == 1
\* Instructions per rendered Symbol
MaxContent == 2
\* lines of a source file read by the renderer
MaxFileLines == 2

-----------------------------------------------------------------------------
(* Go strings *)

TAB == "\t"

Empty == << >>

\* a nil error
Nil == "nil"

\* getDisasm has not returned; a nil slice is the empty sequence
NoRet == [syms |-> << >>, err |-> "pending"]

\* a history variable that holds no list yet, and one that holds syms
NoList == [set |-> FALSE, syms |-> << >>]
Held(syms) == [set |-> TRUE, syms |-> syms]

\* strings.HasPrefix
HasPrefix(s, p) ==
    Len(s) >= Len(p) /\ SubSeq(s, 1, Len(p)) = p

\* strings.IndexByte: 0-based index of the first c in s, or -1
IndexByte(s, c) ==
    IF \E k \in 1..Len(s) : s[k] = c
    THEN (CHOOSE k \in 1..Len(s) : s[k] = c /\ \A j \in 1..(k-1) : s[j] # c) - 1
    ELSE -1

\* whether the slice expression s[lo:hi] is in range (otherwise Go panics)
SliceOK(s, lo, hi) ==
    0 <= lo /\ lo <= hi /\ hi <= Len(s)

\* s[lo:hi]
Slice(s, lo, hi) ==
    SubSeq(s, lo + 1, hi)

\* unicode.IsSpace on the ASCII range
IsSpace(c) ==
    c \in {" ", "\t", "\n", "\r", "\f"}

\* strings.TrimSpace
TrimSpace(s) ==
    IF \A k \in 1..Len(s) : IsSpace(s[k])
    THEN Empty
    ELSE LET lo == CHOOSE k \in 1..Len(s) :
                       ~IsSpace(s[k]) /\ \A j \in 1..(k-1) : IsSpace(s[j])
             hi == CHOOSE k \in 1..Len(s) :
                       ~IsSpace(s[k]) /\ \A j \in (k+1)..Len(s) : IsSpace(s[j])
         IN  SubSeq(s, lo, hi)

\* strings.SplitN(s, " ", 2)
SplitN2(s) ==
    LET k == IndexByte(s, " ")
    IN  IF k = -1 THEN <<s>>
        ELSE <<Slice(s, 0, k), Slice(s, k + 1, Len(s))>>

DecDigits == <<"0", "1", "2", "3", "4", "5", "6", "7", "8", "9">>
HexLetters == <<"a", "b", "c", "d", "e", "f">>
HexUpper == <<"A", "B", "C", "D", "E", "F">>

\* the digit value strconv gives a byte, or 99 for a byte that is no digit
DigitVal(c) ==
    IF \E k \in 1..10 : DecDigits[k] = c
    THEN (CHOOSE k \in 1..10 : DecDigits[k] = c) - 1
    ELSE IF \E k \in 1..6 : HexLetters[k] = c
    THEN (CHOOSE k \in 1..6 : HexLetters[k] = c) + 9
    ELSE IF \E k \in 1..6 : HexUpper[k] = c
    THEN (CHOOSE k \in 1..6 : HexUpper[k] = c) + 9
    ELSE 99

\* the value of the digit string s in the given base, most significant first
RECURSIVE DigitsValue(_, _)
DigitsValue(s, base) ==
    IF s = Empty THEN 0
    ELSE DigitsValue(SubSeq(s, 1, Len(s) - 1), base) * base + DigitVal(s[Len(s)])

\* strconv.ParseUint(s, base, 64) for an explicit base (no underscores, no prefix)
ParseDigits(s, base) ==
    IF s = Empty \/ \E k \in 1..Len(s) : DigitVal(s[k]) >= base
    THEN [ok |-> FALSE, val |-> 0]
    ELSE [ok |-> TRUE, val |-> DigitsValue(s, base)]

\* the sign strconv strips before the digits
Unsigned(s) ==
    IF s # Empty /\ s[1] \in {"+", "-"} THEN Tail(s) ELSE s

Signed(s, r) ==
    IF r.ok /\ s # Empty /\ s[1] = "-" THEN [ok |-> TRUE, val |-> 0 - r.val] ELSE r

\* strconv.Atoi: base 10, optional sign
Atoi(s) ==
    Signed(s, ParseDigits(Unsigned(s), 10))

Lower(c) ==
    IF \E k \in 1..6 : HexUpper[k] = c
    THEN HexLetters[CHOOSE k \in 1..6 : HexUpper[k] = c]
    ELSE IF c = "X" THEN "x" ELSE IF c = "O" THEN "o" ELSE c

\* strconv.ParseUint(s, 0, 64): the base is read from the prefix.  An empty
\* digit string after a lone "0" is the number zero.  (Underscores, which base
\* 0 also admits between digits, are not in the alphabet of the inputs.)
ParseUintBase0(s) ==
    IF s = Empty THEN [ok |-> FALSE, val |-> 0]
    ELSE IF s[1] # "0" THEN ParseDigits(s, 10)
    ELSE IF Len(s) >= 3 /\ Lower(s[2]) = "b" THEN ParseDigits(SubSeq(s, 3, Len(s)), 2)
    ELSE IF Len(s) >= 3 /\ Lower(s[2]) = "o" THEN ParseDigits(SubSeq(s, 3, Len(s)), 8)
    ELSE IF Len(s) >= 3 /\ Lower(s[2]) = "x" THEN ParseDigits(SubSeq(s, 3, Len(s)), 16)
    ELSE IF Len(s) = 1 THEN [ok |-> TRUE, val |-> 0]
    ELSE ParseDigits(Tail(s), 8)

\* strconv.ParseInt(s, 0, 0)
ParseInt(s) ==
    Signed(s, ParseUintBase0(Unsigned(s)))

\* the sequences over S of length at most n
SeqsUpTo(S, n) ==
    UNION { [1..k -> S] : k \in 0..n }

-----------------------------------------------------------------------------
(* getDisasm: the listing parser *)

\* const textPrefix = "TEXT "
textPrefix == <<"T", "E", "X", "T", " ">>

\* the two-space indentation the parser requires of an instruction line
indent == <<" ", " ">>

\* &disasmSym{file: f[1], symbol: f[0]}
NewSym(f) ==
    [file |-> f[2], symbol |-> f[1], content |-> << >>]

\* the fields of a header line: strings.SplitN(l[len(textPrefix):], " ", 2)
HeaderFields(ln) ==
    SplitN2(Slice(ln, Len(textPrefix), Len(ln)))

Fault == [kind |-> "fault"]

\* the decoded text split at its first space into instr and arg, and the
\* disamLine built from the fields
NewLine(f, srcLine, binOffset, asm, decoded) ==
    LET j == IndexByte(decoded, " ")
    IN  [file |-> f, srcLine |-> srcLine, binOffset |-> binOffset, asm |-> asm,
         decoded |-> decoded,
         instr |-> IF j # -1 THEN Slice(decoded, 0, j) ELSE decoded,
         arg |-> IF j # -1 THEN Slice(decoded, j + 1, Len(decoded)) ELSE Empty,
         alias |-> Empty]

\* the third and fourth fields: asm := l[:j]; decoded := TrimSpace(l[j:])
DecodeAsm(f, fileSrc, srcLine, binOffset, l3) ==
    LET j3 == IndexByte(l3, TAB)
    IN  IF ~SliceOK(l3, 0, j3) THEN Fault
        ELSE [kind |-> "ok", fileSrc |-> fileSrc,
              a |-> NewLine(f, srcLine, binOffset, Slice(l3, 0, j3),
                            TrimSpace(Slice(l3, j3, Len(l3))))]

\* the second field: binOffset, err := strconv.ParseInt(l[:j], 0, 0)
DecodeOffset(f, fileSrc, srcLine, l2) ==
    LET j2 == IndexByte(l2, TAB)
    IN  IF ~SliceOK(l2, 0, j2) THEN Fault
        ELSE LET b == ParseInt(Slice(l2, 0, j2))
             IN  IF ~b.ok THEN [kind |-> "error", err |-> "ParseInt"]
                 ELSE DecodeAsm(f, fileSrc, srcLine, b.val,
                                TrimSpace(Slice(l2, j2, Len(l2))))

\* The body of the parse loop for an instruction line, after the prefix test:
\* the slice expressions in the order the code evaluates them, each of which
\* panics when out of range.
DecodeInstr(ln) ==
    LET s == Slice(ln, 2, Len(ln))
        ic == IndexByte(s, ":")
        j == IndexByte(s, TAB)
    IN  IF ~SliceOK(s, 0, ic) THEN Fault
        ELSE IF ~SliceOK(s, 0, j) THEN Fault
        ELSE IF ~SliceOK(s, ic + 1, j) THEN Fault
        ELSE LET n == Atoi(Slice(s, ic + 1, j))
             IN  IF ~n.ok THEN [kind |-> "error", err |-> "Atoi"]
                 ELSE DecodeOffset(Slice(s, 0, ic), Slice(s, 0, j), n.val,
                                   TrimSpace(Slice(s, j, Len(s))))

\* whether the loop takes the instruction branch for this line
IsInstrLine(ln, syms) ==
    /\ ln # Empty
    /\ ~HasPrefix(ln, textPrefix)
    /\ HasPrefix(ln, indent)
    /\ Len(syms) # 0

\* d.content = append(d.content, a), d being out[len(out)-1]
AppendLine(syms, a) ==
    [syms EXCEPT ![Len(syms)].content = Append(@, a)]

\* MapPut as it would be if an offset already in the index kept its entry
MapPut_KeepFirst(mp, k, v) ==
    [x \in DOMAIN mp \cup {k} |-> IF x \in DOMAIN mp THEN mp[x] ELSE v]

\* m[k] = v
MapPut(mp, k, v) ==
    [x \in DOMAIN mp \cup {k} |-> IF x = k THEN v ELSE mp[x]]

\* m[k], the empty string for a missing key
MapGet(mp, k) ==
    IF k \in DOMAIN mp THEN mp[k] ELSE Empty

\* return nil, err
ReturnErr(e) ==
    [syms |-> << >>, err |-> e]

-----------------------------------------------------------------------------
(* The listings the parser is run on: every line is drawn from Lines. *)

File_a == <<"a">>
File_b == <<"b">>
File_da == <<"d", "/", "a">>

Header(sym, f) ==
    textPrefix \o sym \o <<" ">> \o f

InstrLine(loc, off, asm, dec) ==
    indent \o loc \o <<TAB>> \o off \o <<TAB>> \o asm \o <<TAB>> \o dec

Asm == <<"9", "0">>

HeaderLines ==
    { Header(<<"f">>, File_da), Header(<<"g">>, File_b) }

GoodInstrLines ==
    { InstrLine(<<"a", ":", "1">>, <<"1">>, Asm, <<"J", " ", "2">>),
      InstrLine(<<"a", ":", "2">>, <<"2">>, Asm, <<"M", " ", "1">>),
      InstrLine(<<"a", ":", "1">>, <<"0", "x", "2">>, Asm, <<"R">>),
      InstrLine(<<"a", ":", "2">>, <<"1">>, Asm, <<"J", " ", "0", "x", "2">>),
      InstrLine(<<"a", ":", "2">>, <<"3">>, Asm, <<"J", " ", "0", "b", "1">>),
      InstrLine(<<"a", ":", "1">>, <<"4">>, Asm, <<"J", " ", "A", "X">>) }

\* a header with one field; a line with neither prefix; an instruction line
\* indented by one space
Line_OneField == <<"T", "E", "X", "T", " ", "f">>
Line_NoPrefix == <<"x">>
Line_OneSpace == <<" ", "a", ":", "1", TAB, "1", TAB, "9", "0", TAB, "R">>

\* instruction lines whose line number or offset is no integer, with all four
\* fields and cut short after the bad field
Line_BadSrcLine == InstrLine(<<"a", ":", "x">>, <<"1">>, Asm, <<"R">>)
Line_BadOffset == InstrLine(<<"a", ":", "1">>, <<"z">>, Asm, <<"R">>)
Line_BadSrcLineShort == indent \o <<"a", ":", "x", TAB, "1">>
Line_BadOffsetShort == indent \o <<"a", ":", "1", TAB, "z">>

\* instruction lines without ':', without a tab, with the tab before the ':',
\* and with fewer than three fields after the "file:line" part
Line_NoColon == InstrLine(<<"a", "1">>, <<"1">>, Asm, <<"R">>)
Line_NoTab == indent \o <<"a", ":", "1">>
Line_TabFirst == InstrLine(<<"a", TAB, ":", "1">>, <<"1">>, Asm, <<"R">>)
Line_OneMore == indent \o <<"a", ":", "1", TAB, "1">>
Line_TwoMore == indent \o <<"a", ":", "1", TAB, "1", TAB, "9", "0">>

BadLines ==
    { Line_OneField, Line_NoPrefix, Line_OneSpace,
      Line_BadSrcLine, Line_BadOffset, Line_BadSrcLineShort, Line_BadOffsetShort,
      Line_NoColon, Line_NoTab, Line_TabFirst, Line_OneMore, Line_TwoMore }

Lines ==
    {Empty} \cup HeaderLines \cup GoodInstrLines \cup BadLines

-----------------------------------------------------------------------------
(* getDisasm: the parse loop, one action per line read *)

\* if l == "" { continue }
ParseBlank ==
    /\ pc = "parse" /\ nread < MaxLines
    /\ \E ln \in Lines :
        /\ ln = Empty
        /\ l' = ln /\ nread' = nread + 1
    /\ UNCHANGED <<pc, out, m, ret, filterVars, renderVars>>

\* a header line with two fields opens a Symbol
ParseHeader ==
    /\ pc = "parse" /\ nread < MaxLines
    /\ \E ln \in Lines :
        /\ ln # Empty /\ HasPrefix(ln, textPrefix)
        /\ Len(HeaderFields(ln)) = 2
        /\ l' = ln /\ nread' = nread + 1
        /\ out' = Append(out, NewSym(HeaderFields(ln)))
    /\ UNCHANGED <<pc, m, ret, filterVars, renderVars>>

\* a header line without a second field: return nil, fmt.Errorf(...)
ParseHeaderError ==
    /\ pc = "parse" /\ nread < MaxLines
    /\ \E ln \in Lines :
        /\ ln # Empty /\ HasPrefix(ln, textPrefix)
        /\ Len(HeaderFields(ln)) # 2
        /\ l' = ln /\ nread' = nread + 1
    /\ ret' = ReturnErr("decode")
    /\ pc' = "returned"
    /\ UNCHANGED <<out, m, filterVars, renderVars>>

\* if !strings.HasPrefix(l, "  ") || len(out) == 0: return nil, fmt.Errorf(...)
ParseFormatError ==
    /\ pc = "parse" /\ nread < MaxLines
    /\ \E ln \in Lines :
        /\ ln # Empty /\ ~HasPrefix(ln, textPrefix)
        /\ ~HasPrefix(ln, indent) \/ Len(out) = 0
        /\ l' = ln /\ nread' = nread + 1
    /\ ret' = ReturnErr("decode")
    /\ pc' = "returned"
    /\ UNCHANGED <<out, m, filterVars, renderVars>>

\* an instruction line that decodes: append it, and record it in the index
ParseInstr ==
    /\ pc = "parse" /\ nread < MaxLines
    /\ \E ln \in Lines :
        /\ IsInstrLine(ln, out)
        /\ DecodeInstr(ln).kind = "ok"
        /\ l' = ln /\ nread' = nread + 1
        /\ out' = AppendLine(out, DecodeInstr(ln).a)
        /\ m' = MapPut(m, DecodeInstr(ln).a.binOffset, DecodeInstr(ln).fileSrc)
    /\ UNCHANGED <<pc, ret, filterVars, renderVars>>

\* an instruction line whose line number or offset strconv rejects: return nil, err
ParseInstrError ==
    /\ pc = "parse" /\ nread < MaxLines
    /\ \E ln \in Lines :
        /\ IsInstrLine(ln, out)
        /\ DecodeInstr(ln).kind = "error"
        /\ l' = ln /\ nread' = nread + 1
        /\ ret' = ReturnErr(DecodeInstr(ln).err)
    /\ pc' = "returned"
    /\ UNCHANGED <<out, m, filterVars, renderVars>>

\* an instruction line on which a slice expression is out of range: the
\* goroutine panics and getDisasm returns nothing
ParseInstrFault ==
    /\ pc = "parse" /\ nread < MaxLines
    /\ \E ln \in Lines :
        /\ IsInstrLine(ln, out)
        /\ DecodeInstr(ln).kind = "fault"
        /\ l' = ln /\ nread' = nread + 1
    /\ pc' = "panic"
    /\ UNCHANGED <<out, m, ret, filterVars, renderVars>>

\* the range over the lines is exhausted
EndOfInput ==
    /\ pc = "parse"
    /\ pc' = "resolve"
    /\ UNCHANGED <<parseVars, ret, filterVars, renderVars>>

-----------------------------------------------------------------------------
(* getDisasm: the jump resolver *)

\* ResolveLine as it would be without the test of the mnemonic
ResolveLine_AnyMnemonic(c, mp) ==
    LET b == ParseInt(c.arg)
    IN  IF b.ok /\ MapGet(mp, b.val) # Empty
        THEN [c EXCEPT !.alias = MapGet(mp, b.val)]
        ELSE c

\* the body of the resolver's inner loop for one disamLine
ResolveLine(c, mp) ==
    IF c.instr[1] = "J"
    THEN LET b == ParseInt(c.arg)
         IN  IF b.ok /\ MapGet(mp, b.val) # Empty
             THEN [c EXCEPT !.alias = MapGet(mp, b.val)]
             ELSE c
    ELSE c

ResolveAll(syms, mp) ==
    [s \in DOMAIN syms |->
        [syms[s] EXCEPT !.content =
            [c \in DOMAIN syms[s].content |-> ResolveLine(syms[s].content[c], mp)]]]

ResolveJumps ==
    /\ pc = "resolve"
    /\ out' = ResolveAll(out, m)
    /\ pc' = "filter"
    /\ UNCHANGED <<l, nread, m, ret, filterVars, renderVars>>

InitParse ==
    /\ pc = "parse" /\ l = Empty /\ nread = 0
    /\ out = << >> /\ m = << >> /\ ret = NoRet
    /\ file = Empty /\ i = 0 /\ parsed = NoList /\ first = NoList
    /\ d = << >> /\ si = 0 /\ ci = 0 /\ lastLine = 0 /\ nlines = 0 /\ w = << >>

NextParse ==
    \/ ParseBlank
    \/ ParseHeader
    \/ ParseHeaderError
    \/ ParseFormatError
    \/ ParseInstr
    \/ ParseInstrError
    \/ ParseInstrFault
    \/ EndOfInput
    \/ ResolveJumps

ParseSpec == InitParse /\ [][NextParse]_vars

-----------------------------------------------------------------------------
(* getDisasm: the file filter *)

\* filepath.Base: the path with its trailing slashes stripped
RECURSIVE StripSlashes(_)
StripSlashes(path) ==
    IF Len(path) > 0 /\ path[Len(path)] = "/"
    THEN StripSlashes(SubSeq(path, 1, Len(path) - 1))
    ELSE path

\* filepath.Base: what follows the last separator
LastElement(path) ==
    LET k == IF \E j \in 1..Len(path) : path[j] = "/"
             THEN CHOOSE j \in 1..Len(path) :
                      path[j] = "/" /\ \A h \in (j+1)..Len(path) : path[h] # "/"
             ELSE 0
    IN  SubSeq(path, k + 1, Len(path))

\* filepath.Base (Unix)
Base(path) ==
    IF path = Empty THEN <<".">>
    ELSE IF LastElement(StripSlashes(path)) = Empty THEN <<"/">>
    ELSE LastElement(StripSlashes(path))

\* copy(out[i:], out[i+1:]) for the 0-based index k: the elements after k move
\* down one place; the slice keeps its length and its last element stays
CopyDown(syms, k) ==
    [x \in 1..Len(syms) |-> IF x >= k + 1 /\ x < Len(syms) THEN syms[x + 1] ELSE syms[x]]

\* return out, nil
ReturnOK(syms) ==
    [syms |-> syms, err |-> Nil]

\* if file != "" is false: no filtering
FilterSkip ==
    /\ pc = "filter" /\ file = Empty
    /\ ret' = ReturnOK(out)
    /\ pc' = "returned"
    /\ UNCHANGED <<parseVars, filterVars, renderVars>>

\* if file != "": i := 0
FilterEnter ==
    /\ pc = "filter" /\ file # Empty
    /\ i' = 0
    /\ parsed' = Held(out)
    /\ pc' = "filter_test"
    /\ UNCHANGED <<parseVars, ret, file, first, renderVars>>

\* i < len(out) is false: the loop ends and getDisasm returns out, nil
FilterExit ==
    /\ pc = "filter_test" /\ ~(i < Len(out))
    /\ ret' = ReturnOK(out)
    /\ pc' = "returned"
    /\ UNCHANGED <<parseVars, filterVars, renderVars>>

\* FilterDrop as it would be had the body forgotten its i--: the Symbol that
\* moved into place i is never examined
FilterDrop_NoDecrement ==
    /\ pc = "filter_test" /\ i < Len(out)
    /\ Base(out[i + 1].file) # file
    /\ out' = CopyDown(out, i)
    /\ pc' = "filter_post"
    /\ UNCHANGED <<l, nread, m, ret, file, i, parsed, first, renderVars>>

\* the body for a Symbol of another file: copy(out[i:], out[i+1:]); i--
FilterDrop ==
    /\ pc = "filter_test" /\ i < Len(out)
    /\ Base(out[i + 1].file) # file
    /\ out' = CopyDown(out, i)
    /\ i' = i - 1
    /\ pc' = "filter_post"
    /\ UNCHANGED <<l, nread, m, ret, file, parsed, first, renderVars>>

\* the body for a Symbol of the target file: nothing
FilterKeep ==
    /\ pc = "filter_test" /\ i < Len(out)
    /\ Base(out[i + 1].file) = file
    /\ pc' = "filter_post"
    /\ UNCHANGED <<parseVars, ret, filterVars, renderVars>>

\* the loop's post statement: i++
FilterPost ==
    /\ pc = "filter_post"
    /\ i' = i + 1
    /\ pc' = "filter_test"
    /\ UNCHANGED <<parseVars, ret, file, parsed, first, renderVars>>

\* The filter loop applied to its own result (with the same target): the
\* returned list becomes the input of a second pass.
Refilter ==
    /\ pc = "returned" /\ file # Empty /\ ~first.set
    /\ ret.err = Nil
    /\ first' = Held(ret.syms)
    /\ out' = ret.syms
    /\ i' = 0
    /\ ret' = NoRet
    /\ pc' = "filter_test"
    /\ UNCHANGED <<l, nread, m, file, parsed, renderVars>>

\* the Symbols a listing of header lines parses into
FilterHeaders ==
    HeaderLines \cup { Header(<<"h">>, File_a) }

FilterSyms ==
    { NewSym(HeaderFields(h)) : h \in FilterHeaders }

\* the values of the -file flag
Targets ==
    { Empty, File_a, File_b }

InitFilter ==
    /\ pc = "filter" /\ l = Empty /\ nread = 0
    /\ out \in SeqsUpTo(FilterSyms, MaxSyms)
    /\ m = << >> /\ ret = NoRet
    /\ file \in Targets /\ i = 0 /\ parsed = NoList /\ first = NoList
    /\ d = << >> /\ si = 0 /\ ci = 0 /\ lastLine = 0 /\ nlines = 0 /\ w = << >>

NextFilter ==
    \/ FilterSkip
    \/ FilterEnter
    \/ FilterExit
    \/ FilterDrop
    \/ FilterKeep
    \/ FilterPost
    \/ Refilter

FilterSpec == InitFilter /\ [][NextFilter]_vars

\* getDisasm is sequential code: whenever a step is possible, it is taken
FilterFairSpec == FilterSpec /\ WF_vars(NextFilter)

-----------------------------------------------------------------------------
(* printAnnotated *)

UpperCase ==
    << "A", "B", "C", "D", "E", "F", "G", "H", "I", "J", "K", "L", "M",
       "N", "O", "P", "Q", "R", "S", "T", "U", "V", "W", "X", "Y", "Z" >>

LowerCase ==
    << "a", "b", "c", "d", "e", "f", "g", "h", "i", "j", "k", "l", "m",
       "n", "o", "p", "q", "r", "s", "t", "u", "v", "w", "x", "y", "z" >>

\* the punctuation of file and symbol names, with its byte value
Punctuation ==
    { <<" ", 32>>, <<"(", 40>>, <<")", 41>>, <<"*", 42>>, <<"-", 45>>,
      <<".", 46>>, <<"/", 47>>, <<":", 58>>, <<"_", 95>> }

\* the byte value of a character of a file or symbol name
Ord(c) ==
    IF \E k \in 1..10 : DecDigits[k] = c
    THEN (CHOOSE k \in 1..10 : DecDigits[k] = c) + 47
    ELSE IF \E k \in 1..26 : UpperCase[k] = c
    THEN (CHOOSE k \in 1..26 : UpperCase[k] = c) + 64
    ELSE IF \E k \in 1..26 : LowerCase[k] = c
    THEN (CHOOSE k \in 1..26 : LowerCase[k] = c) + 96
    ELSE (CHOOSE e \in Punctuation : e[1] = c)[2]

\* x < y on Go strings: bytewise lexicographic order
RECURSIVE StrLess(_, _)
StrLess(x, y) ==
    IF y = Empty THEN FALSE
    ELSE IF x = Empty THEN TRUE
    ELSE IF x[1] = y[1] THEN StrLess(Tail(x), Tail(y))
    ELSE Ord(x[1]) < Ord(y[1])

\* the less function of the Symbol sort
LessSym(x, y) ==
    IF x.file # y.file THEN StrLess(x.file, y.file) ELSE StrLess(x.symbol, y.symbol)

\* the less function of the content sort
LessLine(x, y) ==
    x.srcLine < y.srcLine

\* the rearrangements of a sequence
Rearranged(seq) ==
    { [k \in 1..Len(seq) |-> seq[p[k]]] :
        p \in { q \in [1..Len(seq) -> 1..Len(seq)] :
                  \A a, b \in 1..Len(seq) : q[a] = q[b] => a = b } }

\* sort.Slice(d, ...): "The sort is not guaranteed to be stable", so the slice
\* ends as any rearrangement of its elements that is in order by less
SortSliceSyms(seq) ==
    { r \in Rearranged(seq) :
        \A a, b \in 1..Len(r) : a < b => ~LessSym(r[b], r[a]) }

\* sort.Slice(s.content, ...), likewise
SortSliceLines(seq) ==
    { r \in Rearranged(seq) :
        \A a, b \in 1..Len(r) : a < b => ~LessLine(r[b], r[a]) }

\* the color of an Instruction's line
Color(c) ==
    IF c.instr = <<"C", "A", "L", "L">> \/ c.instr = <<"R", "E", "T">> THEN "LightGreen"
    ELSE IF HasPrefix(c.instr, <<"J">>) THEN "LightBlue"
    ELSE IF c.instr = <<"U", "D", "2">> THEN "LightRed"
    ELSE IF c.instr = <<"I", "N", "T">> \/ HasPrefix(c.instr, <<"N", "O", "P">>)
    THEN "LightMagenta"
    ELSE ""

\* %-5s
Pad5(str) ==
    str \o [k \in 1..(5 - Len(str)) |-> " "]

\* the text of an Instruction's line between the color and the reset
InstrText(c) ==
    IF c.alias # Empty THEN Pad5(c.instr) \o <<" ">> \o c.alias
    ELSE IF c.arg # Empty THEN Pad5(c.instr) \o <<" ">> \o c.arg
    ELSE c.instr

\* whether an empty line follows the Instruction's line
EndsBlock(c) ==
    \/ HasPrefix(c.decoded, <<"J", "M", "P", " ">>)
    \/ HasPrefix(c.decoded, <<"R", "E", "T", " ">>)
    \/ HasPrefix(c.decoded, <<"U", "D", "2", " ">>)

\* whether the content loop prints the source line before the Instruction
NeedsHeader(c, last) ==
    c.srcLine # last

\* The body of the content loop with the mutation that prints the source line
\* before every Instruction
Emit_AlwaysHeader(c, last) ==
    <<[kind |-> "hdr", line |-> c.srcLine]>>
    \o <<[kind |-> "ins", color |-> Color(c), text |-> InstrText(c)]>>
    \o (IF EndsBlock(c) THEN <<[kind |-> "nl"]>> ELSE << >>)

\* What the body of the content loop writes for one Instruction: the source
\* line (its text is the file's, here its number), the Instruction, and an
\* empty line after JMP, RET and UD2 with an operand.
Emit(c, last) ==
    (IF NeedsHeader(c, last) THEN <<[kind |-> "hdr", line |-> c.srcLine]>> ELSE << >>)
    \o <<[kind |-> "ins", color |-> Color(c), text |-> InstrText(c)]>>
    \o (IF EndsBlock(c) THEN <<[kind |-> "nl"]>> ELSE << >>)

\* whether lines[c.srcLine-1] is in range
LineInFile(c, n) ==
    0 <= c.srcLine - 1 /\ c.srcLine - 1 < n

\* sort.Slice(d, ...) by file, then symbol
SortSyms ==
    /\ pc = "render"
    /\ d' \in SortSliceSyms(d)
    /\ si' = 1
    /\ pc' = "r_sym"
    /\ UNCHANGED <<parseVars, ret, filterVars, ci, lastLine, nlines, w>>

\* ioutil.ReadFile fails: the Symbol is skipped
RenderSkip ==
    /\ pc = "r_sym" /\ si <= Len(d)
    /\ w' = Append(w, [kind |-> "skip", file |-> d[si].file])
    /\ si' = si + 1
    /\ UNCHANGED <<pc, parseVars, ret, filterVars, d, ci, lastLine, nlines>>

\* the file is read (it has at least one line): the Symbol's name is printed,
\* its content is sorted by source line, lastLine := 0
RenderOpen ==
    /\ pc = "r_sym" /\ si <= Len(d)
    /\ \E n \in 1..MaxFileLines : nlines' = n
    /\ w' = Append(w, [kind |-> "sym", text |-> d[si].symbol])
    /\ \E sorted \in SortSliceLines(d[si].content) :
           d' = [d EXCEPT ![si].content = sorted]
    /\ lastLine' = 0
    /\ ci' = 1
    /\ pc' = "r_ins"
    /\ UNCHANGED <<parseVars, ret, filterVars, si>>

\* one Instruction is printed
RenderInstr ==
    /\ pc = "r_ins" /\ ci <= Len(d[si].content)
    /\ NeedsHeader(d[si].content[ci], lastLine) => LineInFile(d[si].content[ci], nlines)
    /\ w' = w \o Emit(d[si].content[ci], lastLine)
    /\ lastLine' = d[si].content[ci].srcLine
    /\ ci' = ci + 1
    /\ UNCHANGED <<pc, parseVars, ret, filterVars, d, si, nlines>>

\* the source line to print is not a line of the file: index out of range
RenderFault ==
    /\ pc = "r_ins" /\ ci <= Len(d[si].content)
    /\ NeedsHeader(d[si].content[ci], lastLine)
    /\ ~LineInFile(d[si].content[ci], nlines)
    /\ pc' = "panic"
    /\ UNCHANGED <<parseVars, ret, filterVars, renderVars>>

\* the content loop ends: the next Symbol
RenderNext ==
    /\ pc = "r_ins" /\ ci > Len(d[si].content)
    /\ si' = si + 1
    /\ pc' = "r_sym"
    /\ UNCHANGED <<parseVars, ret, filterVars, d, ci, lastLine, nlines, w>>

\* the Symbol loop ends
RenderDone ==
    /\ pc = "r_sym" /\ si > Len(d)
    /\ pc' = "exit"
    /\ UNCHANGED <<parseVars, ret, filterVars, renderVars>>

\* The instruction lines of the Symbols the renderer is run on: source lines
\* 0, 1 (twice) and 2
RenderLines ==
    { InstrLine(<<":", "0">>, <<"1">>, Asm, <<"R", "E", "T">>),
      InstrLine(<<"a", ":", "1">>, <<"2">>, Asm, <<"J", "M", "P", " ", "3">>),
      InstrLine(<<"a", ":", "1">>, <<"3">>, Asm, <<"N", "O", "P">>),
      InstrLine(<<"a", ":", "2">>, <<"4">>, Asm, <<"M", " ", "1">>) }

\* the index of a listing's instruction lines
RECURSIVE IndexOf(_)
IndexOf(lns) ==
    IF lns = Empty THEN << >>
    ELSE MapPut(IndexOf(SubSeq(lns, 1, Len(lns) - 1)),
                DecodeInstr(lns[Len(lns)]).a.binOffset,
                DecodeInstr(lns[Len(lns)]).fileSrc)

\* the Symbol a header line and the instruction lines after it parse into
SymOf(h, lns) ==
    [NewSym(HeaderFields(h)) EXCEPT
        !.content = [k \in DOMAIN lns |-> DecodeInstr(lns[k]).a]]

\* the Symbols getDisasm returns for a header and up to MaxContent lines
RenderSyms ==
    { ResolveAll(<<SymOf(h, lns)>>, IndexOf(lns))[1] :
        h \in HeaderLines, lns \in SeqsUpTo(RenderLines, MaxContent) }

InitRender ==
    /\ pc = "render" /\ l = Empty /\ nread = 0
    /\ out = << >> /\ m = << >> /\ ret = NoRet
    /\ file = Empty /\ i = 0 /\ parsed = NoList /\ first = NoList
    /\ d \in SeqsUpTo(RenderSyms, MaxRenderSyms)
    /\ si = 0 /\ ci = 0 /\ lastLine = 0 /\ nlines = 0 /\ w = << >>

NextRender ==
    \/ SortSyms
    \/ RenderSkip
    \/ RenderOpen
    \/ RenderInstr
    \/ RenderFault
    \/ RenderNext
    \/ RenderDone

RenderSpec == InitRender /\ [][NextRender]_vars

-----------------------------------------------------------------------------
(* mainImpl: the whole program, from the listing to the annotated output *)

\* s, err := getDisasm(...); err == nil: printAnnotated(w, s)
MainPrint ==
    /\ pc = "returned" /\ ret.err = Nil
    /\ d' = ret.syms
    /\ pc' = "render"
    /\ UNCHANGED <<parseVars, ret, filterVars, si, ci, lastLine, nlines, w>>

\* err != nil: return err, and main exits with status 1
MainError ==
    /\ pc = "returned" /\ ret.err # Nil
    /\ pc' = "exit_err"
    /\ UNCHANGED <<parseVars, ret, filterVars, renderVars>>

Init ==
    /\ pc = "parse" /\ l = Empty /\ nread = 0
    /\ out = << >> /\ m = << >> /\ ret = NoRet
    /\ file \in Targets /\ i = 0 /\ parsed = NoList /\ first = NoList
    /\ d = << >> /\ si = 0 /\ ci = 0 /\ lastLine = 0 /\ nlines = 0 /\ w = << >>

Next ==
    \/ NextParse
    \/ FilterSkip
    \/ FilterEnter
    \/ FilterExit
    \/ FilterDrop
    \/ FilterKeep
    \/ FilterPost
    \/ MainPrint
    \/ MainError
    \/ NextRender

Spec == Init /\ [][Next]_vars

-----------------------------------------------------------------------------
(* Properties of the parser and the resolver *)

\* the places <<s, c>> of the Instructions of a Symbol list, in parse order
Positions(syms) ==
    UNION { { <<s, c>> : c \in DOMAIN syms[s].content } : s \in DOMAIN syms }

At(syms, p) ==
    syms[p[1]].content[p[2]]

Before(p, q) ==
    p[1] < q[1] \/ (p[1] = q[1] /\ p[2] < q[2])

\* decimal digits of a natural number, as objdump prints a line number (%d)
RECURSIVE Itoa(_)
Itoa(n) ==
    IF n < 10 THEN <<DecDigits[n + 1]>>
    ELSE Itoa(n \div 10) \o <<DecDigits[(n % 10) + 1]>>

\* An Instruction's own "file:line" string.  The listings write every line
\* number as objdump prints it, so this is the text of its line before the tab.
LocOf(c) ==
    c.file \o <<":">> \o Itoa(c.srcLine)

\* the parse loop ended without an error, and the filter has not yet run
ParseDone ==
    pc \in {"resolve", "filter"}

\* C4 as claimed: after a successful parse the index entry at every
\* Instruction's offset is that Instruction's own "file:line" string.
C4_OwnLocation ==
    ParseDone =>
        \A p \in Positions(out) :
            MapGet(m, At(out, p).binOffset) = LocOf(At(out, p))

\* the last parsed Instruction with the offset of the one at p
LastWith(p) ==
    CHOOSE q \in Positions(out) :
        /\ At(out, q).binOffset = At(out, p).binOffset
        /\ \A r \in Positions(out) :
               At(out, r).binOffset = At(out, p).binOffset => ~Before(q, r)

\* C4 amended: after a successful parse the index entry at every Instruction's
\* offset is the "file:line" string of the last parsed Instruction with that
\* offset (its own when no later Instruction shares the offset).
C4_LastWriteWins ==
    ParseDone =>
        \A p \in Positions(out) :
            MapGet(m, At(out, p).binOffset) = LocOf(At(out, LastWith(p)))

\* C4's case: two parsed Instructions share an offset and differ in location
C4_Witness ==
    /\ ParseDone
    /\ \E p, q \in Positions(out) :
        /\ Before(p, q)
        /\ At(out, p).binOffset = At(out, q).binOffset
        /\ LocOf(At(out, p)) # LocOf(At(out, q))

\* The operands of the listings' instructions that denote an integer, with the
\* integer: as Go reads them in base 0 (0b is a binary prefix) ...
Base0Operands ==
    { <<<<"1">>, 1>>, <<<<"2">>, 2>>, <<<<"0", "x", "2">>, 2>>,
      <<<<"0", "b", "1">>, 1>> }

\* ... and as decimal or 0x-hex integers only
DecimalOrHexOperands ==
    { <<<<"1">>, 1>>, <<<<"2">>, 2>>, <<<<"0", "x", "2">>, 2>> }

\* the alias the claim gives an Instruction, for a table of integer operands
ExpectedAlias(c, mp, operands) ==
    IF /\ HasPrefix(c.instr, <<"J">>)
       /\ \E e \in operands : e[1] = c.arg /\ e[2] \in DOMAIN mp
    THEN mp[(CHOOSE e \in operands : e[1] = c.arg)[2]]
    ELSE Empty

\* the resolver pass sets every alias as expected and changes nothing else
ResolvesAs(operands) ==
    (pc = "resolve" /\ pc' = "filter") =>
        /\ m' = m
        /\ DOMAIN out' = DOMAIN out
        /\ \A s \in DOMAIN out :
            /\ out'[s].file = out[s].file
            /\ out'[s].symbol = out[s].symbol
            /\ DOMAIN out'[s].content = DOMAIN out[s].content
            /\ \A c \in DOMAIN out[s].content :
                out'[s].content[c] =
                    [out[s].content[c] EXCEPT
                        !.alias = ExpectedAlias(out[s].content[c], m, operands)]

\* C5 as claimed: the resolver sets resolvedAlias to the index entry of the
\* operand's value exactly when the mnemonic begins with J, the operand is a
\* decimal or 0x-hex integer and that integer is a key of the index; otherwise
\* the alias stays empty; no other field changes.
C5_DecimalOrHex ==
    [][ResolvesAs(DecimalOrHexOperands)]_vars

\* C5 amended: the same, with the operand read as Go's base-0 integer syntax
\* (optional sign; 0x hex, 0b binary, 0o or a leading 0 octal, else decimal).
C5_Base0 ==
    [][ResolvesAs(Base0Operands)]_vars

\* C5's case: a jump resolved to an Instruction parsed after it, while an
\* Instruction that is no jump has a numeric operand that is a key
C5_Witness ==
    /\ pc = "filter"
    /\ \E p, q \in Positions(out) :
        /\ Before(p, q)
        /\ HasPrefix(At(out, p).instr, <<"J">>)
        /\ At(out, p).arg = <<"2">> /\ At(out, q).binOffset = 2
        /\ At(out, p).alias = LocOf(At(out, q))

\* the instruction lines of the listings whose line number or offset is no integer
UnparsableNumberLines ==
    { Line_BadSrcLine, Line_BadOffset, Line_BadSrcLineShort, Line_BadOffsetShort }

\* the kinds of line C6 names; out is empty after the line exactly when it
\* was empty before a line that is no header
FormatErrorLine ==
    \/ HasPrefix(l, textPrefix) /\ Len(HeaderFields(l)) # 2
    \/ HasPrefix(l, indent) /\ Len(out) = 0
    \/ l # Empty /\ ~HasPrefix(l, textPrefix) /\ ~HasPrefix(l, indent)
    \/ Len(out) # 0 /\ l \in UnparsableNumberLines

\* C6: a header without two fields, an instruction line before any header, a
\* line with neither prefix, or an instruction line whose line number or
\* offset is no integer stops the parse: getDisasm returns an error and a nil
\* list, whatever was parsed before.
C6_FormatErrorAborts ==
    (nread > 0 /\ FormatErrorLine) =>
        /\ pc = "returned"
        /\ ret.syms = << >>
        /\ ret.err \notin {Nil, "pending"}

\* C10: a line that starts with two spaces while a Symbol is open is parsed into
\* an Instruction or rejected with an error; the parser never faults on it.
C10_NeverFaults ==
    (nread > 0 /\ HasPrefix(l, indent) /\ Len(out) # 0) => pc # "panic"

-----------------------------------------------------------------------------
(* Properties of the renderer *)

\* what has been written since the name of the Symbol being rendered
CurBlock ==
    LET k == CHOOSE j \in 1..Len(w) :
                 w[j].kind = "sym" /\ \A h \in (j+1)..Len(w) : w[h].kind # "sym"
    IN  SubSeq(w, k + 1, Len(w))

\* the place in the block b of the line of the k-th rendered Instruction
NthIns(b, k) ==
    CHOOSE p \in 1..Len(b) :
        b[p].kind = "ins" /\ Cardinality({ q \in 1..p : b[q].kind = "ins" }) = k

\* a source-line header is written immediately before the k-th Instruction
HeaderBefore(b, k) ==
    NthIns(b, k) > 1 /\ b[NthIns(b, k) - 1].kind = "hdr"

HeaderCount(b) ==
    Cardinality({ p \in 1..Len(b) : b[p].kind = "hdr" })

\* the k-th rendered Instruction is the first of its source line
FirstOfLine(content, k) ==
    \A j \in 1..(k - 1) : content[j].srcLine # content[k].srcLine

\* the content loop of the current Symbol has ended
SymRendered ==
    pc = "r_ins" /\ ci > Len(d[si].content)

\* the headers of the rendered Symbol are those of the source lines outside
\* the set skip: one each, immediately before the line's first Instruction
HeadersFor(skip) ==
    LET b == CurBlock
        content == d[si].content
    IN  /\ HeaderCount(b) =
               Cardinality({ content[k].srcLine : k \in DOMAIN content } \ skip)
        /\ \A k \in DOMAIN content :
               /\ HeaderBefore(b, k) <=>
                      (FirstOfLine(content, k) /\ content[k].srcLine \notin skip)
               /\ HeaderBefore(b, k) =>
                      b[NthIns(b, k) - 1].line = content[k].srcLine

\* C7 as claimed: a rendered Symbol gets as many source-line headers as its
\* Instructions have distinct source lines, each once, immediately before the
\* first rendered Instruction of that line.
C7_HeaderPerLine ==
    SymRendered => HeadersFor({})

\* C7 amended: the same for the distinct source lines other than 0; the
\* Instructions of source line 0 (rendered first) get no header.
C7_HeaderPerNonZeroLine ==
    SymRendered => HeadersFor({0})

\* C7's case: a Symbol rendered with two Instructions of one source line
\* under a single header
C7_Witness ==
    /\ SymRendered
    /\ \E j, k \in DOMAIN d[si].content :
        /\ j < k
        /\ d[si].content[j].srcLine = d[si].content[k].srcLine
        /\ d[si].content[j].srcLine # 0
    /\ HeaderCount(CurBlock) = 1

\* the Instructions of seq of source line n, in their order in seq
RECURSIVE OfLine(_, _)
OfLine(seq, n) ==
    IF seq = Empty THEN Empty
    ELSE (IF seq[1].srcLine = n THEN <<seq[1]>> ELSE Empty) \o OfLine(Tail(seq), n)

\* C8: the renderer's sort by source line is stable: Instructions of one Symbol
\* with the same source line are rendered in the order they were parsed in.
C8_StableSort ==
    [][(pc = "r_sym" /\ pc' = "r_ins") =>
          \A k \in DOMAIN d[si].content :
              OfLine(d'[si].content, d[si].content[k].srcLine)
                  = OfLine(d[si].content, d[si].content[k].srcLine)]_vars

-----------------------------------------------------------------------------
(* Properties of the file filter *)

\* whether the filter is meant to retain the Symbol
Matches(sym) ==
    Base(sym.file) = file

\* the first pass of the filter has returned
FirstPassReturned ==
    pc = "returned" /\ file # Empty /\ parsed.set /\ ~first.set

\* C1: for every Symbol list and non-empty target, the returned list is exactly
\* the subsequence of the list's Symbols whose file's basename is the target:
\* each once, in order, and nothing else.
C1_ExactSubsequence ==
    FirstPassReturned => ret.syms = SelectSeq(parsed.syms, Matches)

\* C2: with a non-empty target that no Symbol matches, the filter completes and
\* getDisasm returns an empty list and a nil error, also for a non-empty list.
C2_NoMatchReturnsEmpty ==
    (pc = "filter" /\ file # Empty /\ \A k \in DOMAIN out : ~Matches(out[k]))
        ~> (pc = "returned" /\ ret = [syms |-> << >>, err |-> Nil])

\* C3: the filter is idempotent: the filter loop applied to its own result
\* returns that same list (whenever both passes return).
C3_Idempotent ==
    (pc = "returned" /\ first.set) => ret.syms = first.syms

\* C3's case: a list that lost Symbols in a first pass went through a second
C3_Witness ==
    /\ pc = "returned" /\ first.set
    /\ Len(first.syms) > 0
    /\ \E k \in DOMAIN parsed.syms : ~Matches(parsed.syms[k])

\* C9: the filter loop terminates for every finite list and non-empty target.
C9_FilterTerminates ==
    <>(pc = "returned")

=============================================================================
